---- MODULE Spec2Model ----
(***************************************************************************)
(* Model of app.py, the Streamlit page of the PCOS detection tool.          *)
(*                                                                          *)
(* The page is a script that Streamlit runs from top to bottom once per     *)
(* page load and once more for every operator interaction.  The model keeps *)
(* the position of the running script in pc, the widget values Streamlit    *)
(* keeps per session in widget, and the elements the current run has put on *)
(* the page in out.                                                         *)
(*                                                                          *)
(* Numbers entered in the form are decimals; the model keeps them as an     *)
(* integer count of hundredths (1.99 is 199).  A value of the built row is  *)
(* <<"int", n>> for a Python int n and <<"float", h>> for a Python float of  *)
(* h hundredths.  None is the empty tuple, a present value v is <<v>>.       *)
(***************************************************************************)
EXTENDS Integers, Sequences, FiniteSets, TLC

VARIABLES
    artifact,          \* what joblib.load finds on disk
    cache,             \* st.cache_resource entry of load_model
    model,             \* the module-level name model
    widget,            \* session widget state, one entry per form control
    edits,             \* operator edits made so far
    runs,              \* script runs started so far
    pc,                \* position of the running script
    pressed,           \* what st.form_submit_button returns in this run
    user_data,         \* the dict get_user_input fills, in insertion order
    input_df,          \* the one-row DataFrame, as its columns in order
    prediction,
    probability,
    confidence_score,
    out,               \* elements shown by the current run, in order
    calls,             \* calls made by the current run, in order
    crashed            \* the current run ended in an uncaught exception

vars == <<artifact, cache, model, widget, edits, runs, pc, pressed, user_data,
          input_df, prediction, probability, confidence_score, out, calls,
          crashed>>

(***************************************************************************)
(* Bounds of the model.                                                     *)
(***************************************************************************)
MaxEdits == 1
MaxRuns == 2

(***************************************************************************)
(* The schema.                                                              *)
(***************************************************************************)
ALL_COLUMNS ==
    << "Age (yrs)", "Weight (Kg)", "Height(Cm)", "BMI", "Blood Group", "Pulse rate(bpm)",
       "RR (breaths/min)", "Hb(g/dl)", "Cycle(R/I)", "Cycle length(days)", "Marraige Status (Yrs)",
       "Pregnant(Y/N)", "No. of abortions", "I   beta-HCG(mIU/mL)", "II    beta-HCG(mIU/mL)",
       "FSH(mIU/mL)", "LH(mIU/mL)", "FSH/LH", "Hip(inch)", "Waist(inch)", "Waist:Hip Ratio",
       "TSH (mIU/L)", "AMH(ng/mL)", "PRL(ng/mL)", "Vit D3 (ng/mL)", "PRG(ng/mL)", "RBS(mg/dl)",
       "Weight gain(Y/N)", "hair growth(Y/N)", "Skin darkening (Y/N)", "Hair loss(Y/N)",
       "Pimples(Y/N)", "Fast food (Y/N)", "Reg.Exercise(Y/N)", "BP _Systolic (mmHg)",
       "BP _Diastolic (mmHg)", "Follicle No. (L)", "Follicle No. (R)", "Avg. F size (L) (mm)",
       "Avg. F size (R) (mm)", "Endometrium (mm)" >>

Fields == 1..Len(ALL_COLUMNS)

None == <<>>

\* Python's  sub in s  on strings.
Contains(s, sub) ==
    \E i \in 1..(Len(s) - Len(sub) + 1) : SubSeq(s, i, i + Len(sub) - 1) = sub

BinaryMarkerSpaced == " (Y/N)"
BinaryMarker == "(Y/N)"

CycleMarkerLoose == "Cycle"
CycleMarker == "Cycle(R/I)"

HcgMarkerSingleSpace == "I beta-HCG"
HcgMarker == "beta-HCG"

\* The branch of the if/elif chain of get_user_input a column takes.
Branch(col_name) ==
    IF Contains(col_name, BinaryMarker) THEN "binary"
    ELSE IF Contains(col_name, CycleMarker) THEN "cycle"
    ELSE IF Contains(col_name, HcgMarker) THEN "hcg"
    ELSE "numeric"

BranchOf == [i \in Fields |-> Branch(ALL_COLUMNS[i])]


(***************************************************************************)
(* Form controls.  st.radio keeps one of its options and starts on the      *)
(* first; st.number_input keeps a number and starts on value=.  text is     *)
(* what the operator last typed into a number control.                      *)
(***************************************************************************)
RadioOptions(branch) ==
    IF branch = "binary" THEN <<"No", "Yes">> ELSE <<"Regular", "Irregular">>

NumberDefault(branch) ==
    IF branch = "hcg" THEN 199 ELSE 0

NumberDefaultText(branch) ==
    IF branch = "hcg" THEN "1.99" ELSE "0.00"

\* The control get_user_input creates for a column, before any edit.
NewWidget(branch) ==
    IF branch \in {"binary", "cycle"}
    THEN [w |-> "radio", val |-> RadioOptions(branch)[1]]
    ELSE [w |-> "number", val |-> NumberDefault(branch),
          text |-> NumberDefaultText(branch)]

DigitChars == "0123456789"

IsDigit(c) == \E d \in 0..9 : SubSeq(DigitChars, d + 1, d + 1) = c

DigitVal(c) == CHOOSE d \in 0..9 : SubSeq(DigitChars, d + 1, d + 1) = c

RECURSIVE DigitsVal(_)
DigitsVal(s) ==
    IF Len(s) = 0 THEN 0
    ELSE 10 * DigitsVal(SubSeq(s, 1, Len(s) - 1)) + DigitVal(SubSeq(s, Len(s), Len(s)))

AllDigits(s) == \A i \in 1..Len(s) : IsDigit(SubSeq(s, i, i))

\* A typed decimal of at most two places, in hundredths; None when the text
\* is no such decimal.
ParseDecimal(text) ==
    LET dots == {i \in 1..Len(text) : SubSeq(text, i, i) = "."}
        dot  == IF dots = {} THEN Len(text) + 1 ELSE CHOOSE i \in dots : TRUE
        ip   == SubSeq(text, 1, dot - 1)
        fp   == SubSeq(text, dot + 1, Len(text))
    IN  IF /\ Cardinality(dots) <= 1
           /\ Len(ip) > 0
           /\ AllDigits(ip)
           /\ AllDigits(fp)
           /\ Len(fp) <= 2
        THEN << 100 * DigitsVal(ip)
                + (IF Len(fp) = 0 THEN 0
                   ELSE IF Len(fp) = 1 THEN 10 * DigitsVal(fp)
                   ELSE DigitsVal(fp)) >>
        ELSE None

\* st.number_input: the control always holds a number; typed text that is
\* no number leaves the number it holds.
number_input(current, text) ==
    LET p == ParseDecimal(text) IN IF p = None THEN current ELSE p[1]

(***************************************************************************)
(* get_user_input: one dict entry per column, by the branch the column      *)
(* takes.                                                                   *)
(***************************************************************************)
EncodeBinary(val) == IF val = "Yes" THEN <<"int", 1>> ELSE <<"int", 0>>

EncodeCycleAsFlag(val) == IF val = "Regular" THEN <<"int", 0>> ELSE <<"int", 1>>
EncodeCycle(val) == IF val = "Regular" THEN <<"int", 2>> ELSE <<"int", 4>>

FieldValue(branch, wi) ==
    IF branch = "binary" THEN EncodeBinary(wi.val)
    ELSE IF branch = "cycle" THEN EncodeCycle(wi.val)
    ELSE <<"float", wi.val>>

\* The loop assigns user_data[col_name] once per column.  A Python dict keeps
\* a key where it was first inserted and the value last assigned to it.
FirstInserted ==
    {i \in Fields : \A j \in 1..(i - 1) : ALL_COLUMNS[j] # ALL_COLUMNS[i]}

KeyOrder ==
    [k \in 1..Cardinality(FirstInserted) |->
        CHOOSE i \in FirstInserted :
            Cardinality({j \in FirstInserted : j < i}) = k - 1]

LastAssigned ==
    [i \in Fields |->
        CHOOSE k \in Fields :
            /\ ALL_COLUMNS[k] = ALL_COLUMNS[i]
            /\ \A m \in Fields : ALL_COLUMNS[m] = ALL_COLUMNS[i] => m <= k]

get_user_input(w) ==
    [k \in 1..Len(KeyOrder) |->
        LET i == LastAssigned[KeyOrder[k]]
        IN  <<ALL_COLUMNS[KeyOrder[k]], FieldValue(BranchOf[i], w[i])>>]

\* pd.DataFrame([d]): one row, the columns in the dict's order.
DataFrame(d) == d

HasColumn(df, name) == \E j \in 1..Len(df) : df[j][1] = name

Column(df, name) == CHOOSE c \in {df[j] : j \in 1..Len(df)} : c[1] = name

SelectColumnsKeepOrder(df, cols) == df
\* df[cols]: the named columns, in the order of cols.
SelectColumns(df, cols) == [j \in 1..Len(cols) |-> Column(df, cols[j])]

(***************************************************************************)
(* load_model and the predictor.                                            *)
(***************************************************************************)
Artifacts == {"ok", "missing", "corrupt"}

Pipeline == <<"Pipeline">>

load_model_FileNotFoundOnly(art) ==
    IF art = "ok" THEN [ret |-> Pipeline, shown |-> <<>>, raised |-> FALSE]
    ELSE IF art = "missing"
    THEN [ret |-> None, raised |-> FALSE,
          shown |-> << [el |-> "error", text |-> "Model file not found"] >>]
    ELSE [ret |-> None, raised |-> TRUE, shown |-> <<>>]
load_model(art) ==
    IF art = "ok" THEN [ret |-> Pipeline, shown |-> <<>>, raised |-> FALSE]
    ELSE IF art = "missing"
    THEN [ret |-> None, raised |-> FALSE,
          shown |-> << [el |-> "error", text |-> "Model file not found"] >>]
    ELSE [ret |-> None, raised |-> FALSE,
          shown |-> << [el |-> "error", text |-> "Error loading model"] >>]

\* What model.predict(input_df)[0] can do: raise, or return a class label.
Labels == {0, 1}

\* What model.predict_proba(input_df)[0] can do: the attribute is missing,
\* the call raises, or it returns the class probabilities; the model keeps
\* the probability of class 1, in ten-thousandths.
Probabilities == {1234, 9876}

\* f"{probability*100:.1f}%" for a probability p in ten-thousandths.
FormatPercent(p) ==
    LET r      == p % 10
        down   == p \div 10
        tenths == IF r > 5 \/ (r = 5 /\ down % 2 = 1) THEN down + 1 ELSE down
    IN  ToString(tenths \div 10) \o "." \o ToString(tenths % 10) \o "%"

NotAvailable == "N/A"

TypedTexts == {"1.99", "abc"}

(***************************************************************************)
(* Elements put on the page.                                                *)
(***************************************************************************)
El(kind, text) == [el |-> kind, text |-> text]

LabelPositive == El("error", "RESULT: POSITIVE")
LabelNegative == El("success", "RESULT: NEGATIVE")
Metric(value) == El("metric", value)
Recommendation == El("warning", "high likelihood of PCOS; recommended next steps")
Reassurance == El("success", "low likelihood of PCOS; maintain a healthy lifestyle")
ResultsHeader == El("subheader", "Diagnostic Results")
PredictionError == El("error", "An error occurred during prediction")
DebugInfo == El("write", "Debug info")
SidebarLoaded == El("sidebar success", "Model Loaded Successfully")
SidebarMissing == El("sidebar error", "Model Missing")
UploadWarning == El("warning", "Please upload the model file to continue")
Form == El("form", "pcos_form")

Shows(e) == \E j \in 1..Len(out) : out[j] = e

Count(seq, x) == Cardinality({j \in 1..Len(seq) : seq[j] = x})

(***************************************************************************)
(* The initial state: the process has started, no script run yet.  The      *)
(* controls hold their defaults; Streamlit creates them in the first run    *)
(* that reaches the form.                                                   *)
(***************************************************************************)
Init ==
    /\ artifact \in Artifacts
    /\ cache = <<>>
    /\ model = None
    /\ widget = [i \in Fields |-> NewWidget(BranchOf[i])]
    /\ edits = 0
    /\ runs = 0
    /\ pc = "idle"
    /\ pressed = FALSE
    /\ user_data = <<>>
    /\ input_df = <<>>
    /\ prediction = None
    /\ probability = None
    /\ confidence_score = None
    /\ out = <<>>
    /\ calls = <<>>
    /\ crashed = FALSE

(***************************************************************************)
(* The operator.  Controls exist once a run has shown the form; edits in a  *)
(* form start no run, the submit button does.                               *)
(***************************************************************************)
FormShown == pc = "idle" /\ Shows(Form)

ChooseRadio(i, choice) ==
    /\ FormShown
    /\ edits < MaxEdits
    /\ widget[i].w = "radio"
    /\ \E j \in 1..2 : RadioOptions(BranchOf[i])[j] = choice
    /\ widget[i].val # choice
    /\ widget' = [widget EXCEPT ![i].val = choice]
    /\ edits' = edits + 1
    /\ UNCHANGED <<artifact, cache, model, runs, pc, pressed, user_data, input_df,
                   prediction, probability, confidence_score, out, calls, crashed>>

TypeNumber(i, text) ==
    /\ FormShown
    /\ edits < MaxEdits
    /\ widget[i].w = "number"
    /\ widget' = [widget EXCEPT ![i].val = number_input(widget[i].val, text),
                                ![i].text = text]
    /\ edits' = edits + 1
    /\ UNCHANGED <<artifact, cache, model, runs, pc, pressed, user_data, input_df,
                   prediction, probability, confidence_score, out, calls, crashed>>

\* A script run starts: the page is loaded or reloaded (submit = FALSE), or
\* the operator presses the form's submit button (submit = TRUE).
StartRun(submit) ==
    /\ pc = "idle"
    /\ runs < MaxRuns
    /\ submit => Shows(Form)
    /\ runs' = runs + 1
    /\ pressed' = submit
    /\ pc' = "load"
    /\ user_data' = <<>>
    /\ input_df' = <<>>
    /\ prediction' = None
    /\ probability' = None
    /\ confidence_score' = None
    /\ out' = <<>>
    /\ calls' = <<>>
    /\ crashed' = FALSE
    /\ UNCHANGED <<artifact, cache, model, widget, edits>>

(***************************************************************************)
(* The script, top to bottom.                                               *)
(***************************************************************************)
\* model = load_model(), behind st.cache_resource.
LoadModel ==
    /\ pc = "load"
    /\ IF cache # <<>>
       THEN /\ model' = cache[1]
            /\ pc' = "sidebar"
            /\ UNCHANGED <<cache, out, crashed>>
       ELSE LET r == load_model(artifact) IN
            IF r.raised
            THEN /\ crashed' = TRUE
                 /\ pc' = "idle"
                 /\ UNCHANGED <<cache, model, out>>
            ELSE /\ cache' = <<r.ret>>
                 /\ model' = r.ret
                 /\ out' = out \o r.shown
                 /\ pc' = "sidebar"
                 /\ UNCHANGED crashed
    /\ UNCHANGED <<artifact, widget, edits, runs, pressed, user_data, input_df,
                   prediction, probability, confidence_score, calls>>

Sidebar ==
    /\ pc = "sidebar"
    /\ out' = Append(out, IF model # None THEN SidebarLoaded ELSE SidebarMissing)
    /\ pc' = "main"
    /\ UNCHANGED <<artifact, cache, model, widget, edits, runs, pressed, user_data,
                   input_df, prediction, probability, confidence_score, calls, crashed>>

GetUserInputThenPredict ==
    /\ pc = "main"
    /\ model # None
    /\ user_data' = get_user_input(widget)
    /\ calls' = Append(calls, "get_user_input")
    /\ out' = Append(out, Form)
    /\ pc' = "frame"
    /\ UNCHANGED <<artifact, cache, model, widget, edits, runs, pressed, input_df,
                   prediction, probability, confidence_score, crashed>>
\* if model: input_dict, pressed = get_user_input()
GetUserInput ==
    /\ pc = "main"
    /\ model # None
    /\ user_data' = get_user_input(widget)
    /\ calls' = Append(calls, "get_user_input")
    /\ out' = Append(out, Form)
    /\ pc' = IF pressed THEN "frame" ELSE "idle"
    /\ UNCHANGED <<artifact, cache, model, widget, edits, runs, pressed, input_df,
                   prediction, probability, confidence_score, crashed>>

\* else: st.warning(...)
ModelMissing ==
    /\ pc = "main"
    /\ model = None
    /\ out' = Append(out, UploadWarning)
    /\ pc' = "idle"
    /\ UNCHANGED <<artifact, cache, model, widget, edits, runs, pressed, user_data,
                   input_df, prediction, probability, confidence_score, calls, crashed>>

\* if pressed: the DataFrame, its columns put in order, the results header.
BuildFrame ==
    /\ pc = "frame"
    /\ IF \A j \in 1..Len(ALL_COLUMNS) : HasColumn(DataFrame(user_data), ALL_COLUMNS[j])
       THEN /\ input_df' = SelectColumns(DataFrame(user_data), ALL_COLUMNS)
            /\ out' = out \o << El("divider", ""), ResultsHeader >>
            /\ pc' = "predict"
            /\ UNCHANGED crashed
       ELSE /\ crashed' = TRUE
            /\ pc' = "idle"
            /\ UNCHANGED <<input_df, out>>
    /\ UNCHANGED <<artifact, cache, model, widget, edits, runs, pressed, user_data,
                   prediction, probability, confidence_score, calls>>

\* prediction = model.predict(input_df)[0]
Predict(outcome) ==
    /\ pc = "predict"
    /\ calls' = Append(calls, "predict")
    /\ IF outcome = <<"raise">>
       THEN /\ pc' = "except"
            /\ UNCHANGED prediction
       ELSE /\ prediction' = <<outcome[2]>>
            /\ pc' = "proba"
    /\ UNCHANGED <<artifact, cache, model, widget, edits, runs, pressed, user_data,
                   input_df, probability, confidence_score, out, crashed>>

PredictProbaUncaught(outcome) ==
    /\ pc = "proba"
    /\ calls' = IF outcome = <<"missing">> THEN calls ELSE Append(calls, "predict_proba")
    /\ IF outcome \in {<<"missing">>, <<"raise">>}
       THEN /\ pc' = "except"
            /\ UNCHANGED <<probability, confidence_score>>
       ELSE /\ probability' = <<outcome[2]>>
            /\ confidence_score' = <<FormatPercent(outcome[2])>>
            /\ pc' = "display"
    /\ UNCHANGED <<artifact, cache, model, widget, edits, runs, pressed, user_data,
                   input_df, prediction, out, crashed>>
\* The inner try: predict_proba, and the bare except around it.
PredictProba(outcome) ==
    /\ pc = "proba"
    /\ calls' = IF outcome = <<"missing">> THEN calls ELSE Append(calls, "predict_proba")
    /\ IF outcome \in {<<"missing">>, <<"raise">>}
       THEN /\ probability' = None
            /\ confidence_score' = <<NotAvailable>>
       ELSE /\ probability' = <<outcome[2]>>
            /\ confidence_score' = <<FormatPercent(outcome[2])>>
    /\ pc' = "display"
    /\ UNCHANGED <<artifact, cache, model, widget, edits, runs, pressed, user_data,
                   input_df, prediction, out, crashed>>

IsPositiveZero(pred) == pred = <<0>>
\* prediction == 1
IsPositive(pred) == pred = <<1>>

\* The two result columns.
Display ==
    /\ pc = "display"
    /\ out' = out
              \o (IF IsPositive(prediction)
                  THEN << LabelPositive, Metric(confidence_score[1]) >>
                  ELSE << LabelNegative, Metric(confidence_score[1]) >>)
              \o (IF IsPositive(prediction)
                  THEN << Recommendation >>
                  ELSE << Reassurance >>)
    /\ pc' = "idle"
    /\ UNCHANGED <<artifact, cache, model, widget, edits, runs, pressed, user_data,
                   input_df, prediction, probability, confidence_score, calls, crashed>>

\* except Exception as e: around the prediction and the display.
PredictionFailed ==
    /\ pc = "except"
    /\ out' = out \o << PredictionError, DebugInfo >>
    /\ pc' = "idle"
    /\ UNCHANGED <<artifact, cache, model, widget, edits, runs, pressed, user_data,
                   input_df, prediction, probability, confidence_score, calls, crashed>>

PredictOutcomes == {<<"raise">>} \cup {<<"label", l>> : l \in Labels}

ProbaOutcomes == {<<"missing">>, <<"raise">>} \cup {<<"probs", p>> : p \in Probabilities}

Next ==
    \/ \E i \in Fields : \E choice \in {"No", "Yes", "Regular", "Irregular"} :
          ChooseRadio(i, choice)
    \/ \E i \in Fields : \E text \in TypedTexts : TypeNumber(i, text)
    \/ \E submit \in BOOLEAN : StartRun(submit)
    \/ LoadModel
    \/ Sidebar
    \/ GetUserInput
    \/ ModelMissing
    \/ BuildFrame
    \/ \E outcome \in PredictOutcomes : Predict(outcome)
    \/ \E outcome \in ProbaOutcomes : PredictProba(outcome)
    \/ Display
    \/ PredictionFailed

Spec == Init /\ [][Next]_vars

(***************************************************************************)
(* The reordering step taken alone: the dict handed to the DataFrame in any *)
(* of a family of insertion orders, then the submit path from line 128 on.  *)
(***************************************************************************)
Rotation(k) == [i \in Fields |-> ((i + k - 1) % Len(ALL_COLUMNS)) + 1]

Reversal == [i \in Fields |-> Len(ALL_COLUMNS) + 1 - i]

Transposition(a) ==
    [i \in Fields |-> IF i = a THEN a + 1 ELSE IF i = a + 1 THEN a ELSE i]

Orders ==
    {Rotation(k) : k \in 0..(Len(ALL_COLUMNS) - 1)}
    \cup {Reversal}
    \cup {Transposition(a) : a \in 1..(Len(ALL_COLUMNS) - 1)}

Reordered(d, order) == [k \in 1..Len(d) |-> d[order[k]]]

SecondOptions ==
    [i \in Fields |->
        IF BranchOf[i] \in {"binary", "cycle"}
        THEN [w |-> "radio", val |-> RadioOptions(BranchOf[i])[2]]
        ELSE NewWidget(BranchOf[i])]

InitOrder ==
    /\ artifact = "ok"
    /\ cache = <<Pipeline>>
    /\ model = Pipeline
    /\ widget \in {[i \in Fields |-> NewWidget(BranchOf[i])], SecondOptions}
    /\ edits = 0
    /\ runs = 1
    /\ pc = "frame"
    /\ pressed = TRUE
    /\ \E order \in Orders : user_data = Reordered(get_user_input(widget), order)
    /\ input_df = <<>>
    /\ prediction = None
    /\ probability = None
    /\ confidence_score = None
    /\ out = <<SidebarLoaded, Form>>
    /\ calls = <<"get_user_input">>
    /\ crashed = FALSE

NextOrder ==
    \/ BuildFrame
    \/ \E outcome \in PredictOutcomes : Predict(outcome)
    \/ \E outcome \in ProbaOutcomes : PredictProba(outcome)
    \/ Display
    \/ PredictionFailed

SpecOrder == InitOrder /\ [][NextOrder]_vars

(***************************************************************************)
(* Properties.                                                              *)
(***************************************************************************)
\* The run is past line 133: the frame is built and is, or was, the argument
\* of model.predict.  No control changes while a run is in progress.
AfterFrame == pc \in {"predict", "proba", "display", "except"}

Called(name) == Count(calls, name)

YesNoFields == {i \in Fields : Contains(ALL_COLUMNS[i], "Y/N")}

RegularityFields == {i \in Fields : ALL_COLUMNS[i] = "Cycle(R/I)"}

HormoneFields == {i \in Fields : Contains(ALL_COLUMNS[i], "HCG")}

\* C1: the vector handed to the predictor has exactly one entry per schema
\* field, in the declaration order of ALL_COLUMNS position by position, each
\* carrying the value the raw-input mapping holds for that field, whatever
\* the insertion order of the mapping.
C1_VectorInSchemaOrder ==
    AfterFrame =>
        /\ Len(input_df) = Len(ALL_COLUMNS)
        /\ \A j \in Fields :
              /\ input_df[j][1] = ALL_COLUMNS[j]
              /\ \E k \in 1..Len(user_data) : user_data[k] = input_df[j]

C1_Witness ==
    /\ Called("predict") = 1
    /\ user_data[1][1] # ALL_COLUMNS[1]
    /\ input_df[1][1] = ALL_COLUMNS[1]

\* The default scenario: every Yes/No control on "No", the cycle control on
\* "Regular", every numeric control on 0.0 and both beta-HCG controls on 1.99.
DefaultScenario ==
    \A i \in Fields :
        IF i \in YesNoFields THEN widget[i].val = "No"
        ELSE IF i \in RegularityFields THEN widget[i].val = "Regular"
        ELSE IF i \in HormoneFields THEN widget[i].val = 199
        ELSE widget[i].val = 0

DefaultRow ==
    \A j \in 1..Len(input_df) :
        input_df[j][2] =
            IF j \in YesNoFields THEN <<"int", 0>>
            ELSE IF j \in RegularityFields THEN <<"int", 2>>
            ELSE IF j \in HormoneFields THEN <<"float", 199>>
            ELSE <<"float", 0>>

\* C2 as stated: in the default scenario the built vector has exactly 40
\* entries and equals the default row.
C2_DefaultRowOf40 ==
    (AfterFrame /\ DefaultScenario) => (Len(input_df) = 40 /\ DefaultRow)

\* C2 as amended: in the default scenario the built vector has exactly 41
\* entries, one per column of ALL_COLUMNS, and equals the default row: 0 for
\* each Yes/No field, 2 for the cycle field, 1.99 for each beta-HCG field and
\* 0.0 for every other field.
C2_DefaultRowOf41 ==
    (AfterFrame /\ DefaultScenario) => (Len(input_df) = 41 /\ DefaultRow)

C2_Witness == AfterFrame /\ DefaultScenario /\ Called("predict") = 1

\* C3: when loading the model artifact fails, no run crashes, no run calls
\* get_user_input or the predictor, no run is a submission, and every run
\* that has ended shows the model as missing.
C3_LoadFailureDisables ==
    artifact # "ok" =>
        /\ ~crashed
        /\ Called("get_user_input") = 0
        /\ Called("predict") = 0
        /\ Called("predict_proba") = 0
        /\ ~pressed
        /\ pc \notin {"frame", "predict", "proba", "display", "except"}
        /\ (pc = "idle" /\ runs > 0) =>
              (Shows(SidebarMissing) /\ Shows(UploadWarning) /\ ~Shows(Form))

C3_Witness ==
    /\ artifact = "corrupt"
    /\ runs >= 2
    /\ pc = "idle"
    /\ Shows(UploadWarning)

\* A submission run has ended with model.predict having raised.
PredictRaised == pc = "idle" /\ Called("predict") = 1 /\ prediction = None

\* C4 as stated: when the predictor call raises, one error is surfaced and
\* nothing of the result is shown: no label, no probability, no message and
\* no results section.
C4_SingleErrorNoPartialOutput ==
    PredictRaised =>
        /\ Cardinality({j \in 1..Len(out) :
                          out[j].el \in {"error", "write"}}) = 1
        /\ ~Shows(LabelPositive) /\ ~Shows(LabelNegative)
        /\ \A j \in 1..Len(out) : out[j].el # "metric"
        /\ ~Shows(Recommendation) /\ ~Shows(Reassurance)
        /\ ~Shows(ResultsHeader)

\* A submission run has ended with a label predicted and no probability.
ScoringUnavailable ==
    pc = "idle" /\ prediction # None /\ probability = None /\ Called("predict") = 1

\* C5: when the label is predicted and predict_proba is missing or raises,
\* the result shows the label, the probability reads as not available, and
\* no error is surfaced.
C5_LabelWithoutScore ==
    ScoringUnavailable =>
        /\ Shows(LabelPositive) \/ Shows(LabelNegative)
        /\ Shows(Metric(NotAvailable))
        /\ Count(out, Metric(NotAvailable))
             = Cardinality({j \in 1..Len(out) : out[j].el = "metric"})
        /\ ~Shows(PredictionError)
        /\ ~Shows(DebugInfo)
        /\ \A j \in 1..Len(out) : out[j].el \notin {"write"}
        /\ ~crashed

C5_Witness == ScoringUnavailable /\ Called("predict_proba") = 1

C5_WitnessMissing == ScoringUnavailable /\ Called("predict_proba") = 0

\* Some beta-HCG control last received text that is no number.
UnparsedHormoneText ==
    \E i \in HormoneFields :
        widget[i].w = "number" /\ ParseDecimal(widget[i].text) = None

\* C6 as stated: text in a beta-HCG field that does not parse blocks that
\* submission, so the predictor is not called for it.
C6_MalformedTextBlocks ==
    (pressed /\ pc # "idle" /\ UnparsedHormoneText) =>
        (Called("predict") = 0 /\ pc # "predict")

\* C6 as amended: each beta-HCG field is a numeric entry that starts at 1.99;
\* text that parses as a number becomes the field's value (1.99 yields 1.99),
\* the value is passed through unchanged into the vector, and no text blocks
\* a submission: every submission run calls the predictor.
C6_NumericEntryPassedThrough ==
    /\ \A i \in HormoneFields :
          /\ widget[i].w = "number"
          /\ edits = 0 => widget[i].val = 199
          /\ widget[i].text = "1.99" => widget[i].val = 199
          /\ AfterFrame => input_df[i] = <<ALL_COLUMNS[i], <<"float", widget[i].val>>>>
    /\ (pressed /\ pc = "idle" /\ ~crashed) => Called("predict") = 1
    /\ pressed => \A j \in 1..Len(out) :
                     out[j].el = "error" => out[j] \in {PredictionError, LabelPositive}

C6_Witness ==
    /\ pressed
    /\ pc # "idle"
    /\ UnparsedHormoneText
    /\ Called("predict") = 1
    /\ \E i \in HormoneFields : input_df[i][2] = <<"float", 199>>

C8_BinaryEncoding ==
    \A i \in YesNoFields :
        /\ BranchOf[i] = "binary"
        /\ widget[i].w = "radio"
        /\ widget[i].val \in {"No", "Yes"}
        /\ AfterFrame =>
              input_df[i] = <<ALL_COLUMNS[i],
                              IF widget[i].val = "Yes" THEN <<"int", 1>> ELSE <<"int", 0>>>>

C8_Witness ==
    /\ AfterFrame
    /\ \E i \in YesNoFields :
          /\ ALL_COLUMNS[i] = "Skin darkening (Y/N)"
          /\ widget[i].val = "Yes"
          /\ input_df[i][2] = <<"int", 1>>

\* C9: the field Cycle(R/I), and no other field, takes the cycle rule: its
\* control is the Regular/Irregular choice and the vector holds 2 for
\* "Regular" and 4 for "Irregular", never 0 or 1.
C9_CycleEncoding ==
    /\ Cardinality(RegularityFields) = 1
    /\ \A i \in Fields : (BranchOf[i] = "cycle") <=> (i \in RegularityFields)
    /\ \A i \in Fields : (widget[i].w = "radio" /\ widget[i].val \in {"Regular", "Irregular"})
                            <=> (i \in RegularityFields)
    /\ \A i \in RegularityFields :
          AfterFrame =>
              /\ input_df[i] = <<ALL_COLUMNS[i],
                                 IF widget[i].val = "Regular" THEN <<"int", 2>> ELSE <<"int", 4>>>>
              /\ input_df[i][2][2] \notin {0, 1}

C9_Witness ==
    /\ AfterFrame
    /\ \E i \in RegularityFields :
          widget[i].val = "Irregular" /\ input_df[i][2] = <<"int", 4>>

\* A submission run has ended with its prediction made and displayed.
PredictionShown == pc = "idle" /\ prediction # None /\ ~crashed

\* C10: a submission whose prediction succeeds shows exactly one label, one
\* probability value and one message; the positive label and the
\* recommendation are shown exactly when the predicted label is class 1,
\* otherwise the negative label and the reassurance; the probability value
\* is the percentage of the class-1 probability or the unavailable marker.
C10_ResultPartsAgree ==
    PredictionShown =>
        /\ Count(out, LabelPositive) + Count(out, LabelNegative) = 1
        /\ Count(out, Recommendation) + Count(out, Reassurance) = 1
        /\ Shows(LabelPositive) <=> prediction = <<1>>
        /\ Shows(Recommendation) <=> Shows(LabelPositive)
        /\ Shows(Reassurance) <=> Shows(LabelNegative)
        /\ Cardinality({j \in 1..Len(out) : out[j].el = "metric"}) = 1
        /\ IF probability = None
           THEN Shows(Metric(NotAvailable))
           ELSE Shows(Metric(FormatPercent(probability[1])))

C10_Witness ==
    /\ PredictionShown
    /\ prediction = <<1>>
    /\ Shows(LabelPositive)
    /\ Shows(Metric("98.8%"))
====
